---- MODULE Spec2Model ----
(***************************************************************************)
(* Friendship edge store of friendship-request-router.ts: the friendships *)
(* table and the three tRPC mutations send, accept and decline, each with *)
(* the guard middleware that runs before it.                               *)
(***************************************************************************)
EXTENDS Bags, FiniteSets, Integers, Sequences, TLC

\* ------------------------------------------------------------------ bounds
NumUsers == 2
MaxOps == 5

\* rows of the users table; the session user is always one of them
Users == 1..NumUsers
\* every id a caller can pass as friendUserId: the users and one id that is
\* in no users row
Ids == 1..(NumUsers + 1)

\* FriendshipStatusSchema.Values
Statuses == {"requested", "accepted", "declined"}

\* TRPCError({ code: 'BAD_REQUEST' }) thrown by either guard
BAD_REQUEST == "BAD_REQUEST"

\* -------------------------------------------------------------------- state
VARIABLES
    table,   \* the friendships table: a bag of rows
    last,    \* the last completed call: procedure, input, outcome, branch
    nOps,    \* number of completed calls
    calls    \* per request in flight: its call, position, locals and locks

vars == <<table, last, nOps, calls>>

Row(userId, friendUserId, status) ==
    [userId |-> userId, friendUserId |-> friendUserId, status |-> status]

\* ------------------------------------------------------- query primitives
\* selectFrom('friendships').where(userId).where(friendUserId).where(status)
\* .limit(1): is there a matching row
SelectWhere(t, userId, friendUserId, status) ==
    BagIn(Row(userId, friendUserId, status), t)

\* selectFrom('friendships').where(userId).where(friendUserId).limit(1)
SelectPair(t, userId, friendUserId) ==
    \E s \in Statuses : BagIn(Row(userId, friendUserId, s), t)

UpdateWhereDeleting(t, userId, friendUserId, from, to) ==
    LET old == Row(userId, friendUserId, from)
        n   == CopiesIn(old, t)
    IN  IF n = 0 \/ from = to THEN t ELSE t (-) [r \in {old} |-> n]

\* updateTable('friendships').where(userId).where(friendUserId)
\* .where(status = from).set({ status: to }): every matching row is rewritten
UpdateWhere(t, userId, friendUserId, from, to) ==
    LET old == Row(userId, friendUserId, from)
        new == Row(userId, friendUserId, to)
        n   == CopiesIn(old, t)
    IN  IF n = 0 \/ from = to
        THEN t
        ELSE (t (-) [r \in {old} |-> n]) (+) [r \in {new} |-> n]

\* the storage layer's unique constraint on (userId, friendUserId)
UniqueViolationOff(t, userId, friendUserId) == FALSE

UniqueViolation(t, userId, friendUserId) ==
    SelectPair(t, userId, friendUserId)

\* insertInto('friendships').values({...}).execute(): throws on a duplicate key
InsertInto(t, userId, friendUserId, status) ==
    IF UniqueViolation(t, userId, friendUserId)
    THEN [table |-> t, ok |-> FALSE]
    ELSE [table |-> t (+) SetToBag({Row(userId, friendUserId, status)}),
          ok |-> TRUE]

\* ------------------------------------------------------------------ guards
canSendFriendshipRequestAlways(friendUserId) == TRUE

\* the users row with id = friendUserId exists
canSendFriendshipRequest(friendUserId) ==
    friendUserId \in Users

canAnswerFriendshipRequestAnyStatus(t, sessionUserId, friendUserId) ==
    SelectPair(t, friendUserId, sessionUserId)

\* a requested row friendUserId -> session user exists
canAnswerFriendshipRequest(t, sessionUserId, friendUserId) ==
    SelectWhere(t, friendUserId, sessionUserId, "requested")

\* --------------------------------------------------------------- mutations
sendMutationSwapped(t, sessionUserId, friendUserId) ==
    LET existingDeclinedRequest ==
            SelectWhere(t, sessionUserId, friendUserId, "declined")
    IN  IF existingDeclinedRequest
        THEN [table  |-> UpdateWhere(t, sessionUserId, friendUserId,
                                     "declined", "requested"),
              result |-> "Ok", branch |-> "update"]
        ELSE LET ins == InsertInto(t, friendUserId, sessionUserId, "requested")
             IN  [table  |-> ins.table,
                  result |-> IF ins.ok THEN "Ok" ELSE "Conflict",
                  branch |-> "insert"]

sendMutationInsertOnly(t, sessionUserId, friendUserId) ==
    LET ins == InsertInto(t, sessionUserId, friendUserId, "requested")
    IN  [table  |-> ins.table,
         result |-> IF ins.ok THEN "Ok" ELSE "Conflict",
         branch |-> "insert"]

\* send's mutation: revive a declined row of the caller, else insert a row
sendMutation(t, sessionUserId, friendUserId) ==
    LET existingDeclinedRequest ==
            SelectWhere(t, sessionUserId, friendUserId, "declined")
    IN  IF existingDeclinedRequest
        THEN [table  |-> UpdateWhere(t, sessionUserId, friendUserId,
                                     "declined", "requested"),
              result |-> "Ok", branch |-> "update"]
        ELSE LET ins == InsertInto(t, sessionUserId, friendUserId, "requested")
             IN  [table  |-> ins.table,
                  result |-> IF ins.ok THEN "Ok" ELSE "Conflict",
                  branch |-> "insert"]

\* where a statement of the accept transaction may throw a storage error
FailPoints == {"none", "update", "select", "reverse"}

acceptStatementsOwnRowLookup(t, sessionUserId, friendUserId, failAt) ==
    LET t1 == UpdateWhere(t, friendUserId, sessionUserId,
                          "requested", "accepted")
        reverseFriendship == SelectPair(t1, sessionUserId, friendUserId)
        ins == InsertInto(t1, sessionUserId, friendUserId, "accepted")
        upd == UpdateWhere(t1, sessionUserId, friendUserId,
                           "requested", "accepted")
    IN  IF failAt \in {"update", "select"}
        THEN [working |-> t, failed |-> "StorageFailure", branch |-> "none"]
        ELSE IF ~reverseFriendship
        THEN IF failAt = "reverse"
             THEN [working |-> t1, failed |-> "StorageFailure",
                   branch |-> "insert"]
             ELSE [working |-> ins.table,
                   failed  |-> IF ins.ok THEN "no" ELSE "Conflict",
                   branch  |-> "insert"]
        ELSE IF failAt = "reverse"
             THEN [working |-> t1, failed |-> "StorageFailure",
                   branch |-> "update"]
             ELSE [working |-> upd, failed |-> "no", branch |-> "update"]

\* the statements of the accept transaction, run on the transaction's view
\* of the table until one throws: [working, failed, branch]
acceptStatements(t, sessionUserId, friendUserId, failAt) ==
    LET \* 1. update (session user -> friend) from requested to accepted
        t1 == UpdateWhere(t, sessionUserId, friendUserId,
                          "requested", "accepted")
        \* 2. look up the row (friend -> session user), any status
        reverseFriendship == SelectPair(t1, friendUserId, sessionUserId)
        \* 3. insert it as accepted, or update it from requested to accepted
        ins == InsertInto(t1, friendUserId, sessionUserId, "accepted")
        upd == UpdateWhere(t1, friendUserId, sessionUserId,
                           "requested", "accepted")
    IN  IF failAt = "update"
        THEN [working |-> t, failed |-> "StorageFailure", branch |-> "none"]
        ELSE IF failAt = "select"
        THEN [working |-> t1, failed |-> "StorageFailure", branch |-> "none"]
        ELSE IF ~reverseFriendship
        THEN IF failAt = "reverse"
             THEN [working |-> t1, failed |-> "StorageFailure",
                   branch |-> "insert"]
             ELSE [working |-> ins.table,
                   failed  |-> IF ins.ok THEN "no" ELSE "Conflict",
                   branch  |-> "insert"]
        ELSE IF failAt = "reverse"
             THEN [working |-> t1, failed |-> "StorageFailure",
                   branch |-> "update"]
             ELSE [working |-> upd, failed |-> "no", branch |-> "update"]

acceptWithoutTransaction(t, sessionUserId, friendUserId, failAt) ==
    LET r == acceptStatements(t, sessionUserId, friendUserId, failAt)
    IN  [table  |-> r.working,
         result |-> IF r.failed = "no" THEN "Ok" ELSE r.failed,
         branch |-> r.branch]

acceptForwardOnly(t, sessionUserId, friendUserId, failAt) ==
    IF failAt # "none"
    THEN [table |-> t, result |-> "StorageFailure", branch |-> "none"]
    ELSE [table  |-> UpdateWhere(t, sessionUserId, friendUserId,
                                 "requested", "accepted"),
          result |-> "Ok", branch |-> "none"]

\* ctx.db.transaction().execute(...): commit when the callback returns,
\* roll back to the table as it was when it throws
acceptTransaction(t, sessionUserId, friendUserId, failAt) ==
    LET r == acceptStatements(t, sessionUserId, friendUserId, failAt)
    IN  IF r.failed = "no"
        THEN [table |-> r.working, result |-> "Ok", branch |-> r.branch]
        ELSE [table |-> t, result |-> r.failed, branch |-> r.branch]

declineMutationSwapped(t, sessionUserId, friendUserId) ==
    [table  |-> UpdateWhere(t, sessionUserId, friendUserId,
                            "requested", "declined"),
     result |-> "Ok", branch |-> "update"]

\* decline's mutation: update (friend -> session user) requested -> declined
declineMutation(t, sessionUserId, friendUserId) ==
    [table  |-> UpdateWhere(t, friendUserId, sessionUserId,
                            "requested", "declined"),
     result |-> "Ok", branch |-> "update"]

\* ------------------------------------------------------------------ actions
Call(op, sessionUserId, friendUserId, failAt, r) ==
    [op |-> op, actor |-> sessionUserId, friend |-> friendUserId,
     failAt |-> failAt, result |-> r.result, branch |-> r.branch]

Rejected(t) == [table |-> t, result |-> BAD_REQUEST, branch |-> "guard"]

\* two requests are served at a time
Procs == {"p1", "p2"}

\* no request on this slot
Idle ==
    [op |-> "none", actor |-> 0, friend |-> 0, pc |-> "idle",
     result |-> "none", branch |-> "none", found |-> FALSE,
     locks |-> {}, pending |-> EmptyBag, pre |-> EmptyBag]

Init ==
    /\ table = EmptyBag
    /\ last = [op |-> "none", actor |-> 0, friend |-> 0, failAt |-> "none",
               result |-> "none", branch |-> "none"]
    /\ nOps = 0
    /\ calls = [p \in Procs |-> Idle]

\* procedure.use(canSendFriendshipRequest).mutation(...)
send(sessionUserId, friendUserId) ==
    /\ nOps < MaxOps
    /\ LET r == IF canSendFriendshipRequest(friendUserId)
                THEN sendMutation(table, sessionUserId, friendUserId)
                ELSE Rejected(table)
       IN  /\ table' = r.table
           /\ last' = Call("send", sessionUserId, friendUserId, "none", r)
    /\ nOps' = nOps + 1
    /\ UNCHANGED calls

\* procedure.use(canAnswerFriendshipRequest).mutation(...)
accept(sessionUserId, friendUserId, failAt) ==
    /\ nOps < MaxOps
    \* no statement of the transaction runs, so none can throw, when the
    \* guard rejects the call
    /\ canAnswerFriendshipRequest(table, sessionUserId, friendUserId)
           \/ failAt = "none"
    /\ LET r == IF canAnswerFriendshipRequest(table, sessionUserId, friendUserId)
                THEN acceptTransaction(table, sessionUserId, friendUserId, failAt)
                ELSE Rejected(table)
       IN  /\ table' = r.table
           /\ last' = Call("accept", sessionUserId, friendUserId, failAt, r)
    /\ nOps' = nOps + 1
    /\ UNCHANGED calls

\* procedure.use(canAnswerFriendshipRequest).mutation(...)
decline(sessionUserId, friendUserId) ==
    /\ nOps < MaxOps
    /\ LET r == IF canAnswerFriendshipRequest(table, sessionUserId, friendUserId)
                THEN declineMutation(table, sessionUserId, friendUserId)
                ELSE Rejected(table)
       IN  /\ table' = r.table
           /\ last' = Call("decline", sessionUserId, friendUserId, "none", r)
    /\ nOps' = nOps + 1
    /\ UNCHANGED calls

Next ==
    \E sessionUserId \in Users, friendUserId \in Ids :
        \/ send(sessionUserId, friendUserId)
        \/ \E failAt \in FailPoints :
               accept(sessionUserId, friendUserId, failAt)
        \/ decline(sessionUserId, friendUserId)

Spec == Init /\ [][Next]_vars

\* ------------------------------------------- requests served concurrently
\* Each request runs its guard and then its statements one at a time; the
\* statements of different requests interleave. table holds the committed
\* rows. The accept transaction keeps the rows it has written, with a lock
\* on each pair it wrote, until it commits or rolls back; a statement that
\* would write a row locked by another transaction waits (read committed
\* with row-level write locks).
MaxCalls == 4

\* requests on different pairs of users touch different rows; the requests
\* that contend are those of two users about each other
Contenders == {1, 2}

PairOf(r) == <<r.userId, r.friendUserId>>

\* the rows of t whose pair is not in pairs
WithoutPairs(t, pairs) ==
    [r \in {x \in BagToSet(t) : PairOf(x) \notin pairs} |-> t[r]]

\* the rows of t of one pair
RowsOfPair(t, pair) ==
    [r \in {x \in BagToSet(t) : PairOf(x) = pair} |-> t[r]]

\* what the transaction of call c reads: committed rows and its own writes
View(t, c) == WithoutPairs(t, c.locks) (+) c.pending

LockedByOther(cs, p, pair) ==
    \E q \in Procs \ {p} : pair \in cs[q].locks

\* an update statement inside p's transaction: [blocked, locks, pending]
TxUpdate(t, cs, p, userId, friendUserId, from, to) ==
    LET c    == cs[p]
        pair == <<userId, friendUserId>>
    IN  IF pair \in c.locks
        THEN [blocked |-> FALSE, locks |-> c.locks,
              pending |-> UpdateWhere(c.pending, userId, friendUserId, from, to)]
        ELSE IF ~SelectWhere(t, userId, friendUserId, from)
        THEN [blocked |-> FALSE, locks |-> c.locks, pending |-> c.pending]
        ELSE IF LockedByOther(cs, p, pair)
        THEN [blocked |-> TRUE, locks |-> c.locks, pending |-> c.pending]
        ELSE [blocked |-> FALSE, locks |-> c.locks \cup {pair},
              pending |-> c.pending
                          (+) UpdateWhere(RowsOfPair(t, pair),
                                          userId, friendUserId, from, to)]

\* an insert statement inside p's transaction: [blocked, ok, locks, pending]
TxInsert(t, cs, p, userId, friendUserId, status) ==
    LET c    == cs[p]
        pair == <<userId, friendUserId>>
        ins  == InsertInto(View(t, c), userId, friendUserId, status)
    IN  IF ~ins.ok
        THEN [blocked |-> FALSE, ok |-> FALSE,
              locks |-> c.locks, pending |-> c.pending]
        ELSE IF LockedByOther(cs, p, pair)
        THEN [blocked |-> TRUE, ok |-> TRUE,
              locks |-> c.locks, pending |-> c.pending]
        ELSE [blocked |-> FALSE, ok |-> TRUE,
              locks |-> c.locks \cup {pair},
              pending |-> c.pending
                          (+) SetToBag({Row(userId, friendUserId, status)})]

\* a statement outside a transaction that writes the rows of pair waits
\* while another transaction holds them
AutoBlocked(cs, p, pair, writes) ==
    writes /\ LockedByOther(cs, p, pair)

\* the call has returned: its transaction, if any, is over
Returned(c, result) ==
    [c EXCEPT !.pc = "done", !.result = result,
              !.locks = {}, !.pending = EmptyBag]

\* the transport layer hands a request to a free slot
Invoke(p, op, sessionUserId, friendUserId) ==
    /\ calls[p].pc \in {"idle", "done"}
    /\ nOps < MaxCalls
    /\ calls' = [calls EXCEPT ![p] =
                    [Idle EXCEPT !.op = op, !.actor = sessionUserId,
                                 !.friend = friendUserId, !.pc = "guard",
                                 !.pre = table]]
    /\ nOps' = nOps + 1
    /\ UNCHANGED <<table, last>>

\* canSendFriendshipRequest / canAnswerFriendshipRequest, outside the mutation
Guard(p) ==
    LET c == calls[p]
        pass == IF c.op = "send"
                THEN canSendFriendshipRequest(c.friend)
                ELSE canAnswerFriendshipRequest(table, c.actor, c.friend)
    IN  /\ c.pc = "guard"
        /\ calls' = [calls EXCEPT ![p] =
                        IF ~pass THEN Returned(c, BAD_REQUEST)
                        ELSE IF c.op = "send" THEN [c EXCEPT !.pc = "lookup"]
                        ELSE [c EXCEPT !.pc = "update"]]
        /\ UNCHANGED <<table, last, nOps>>

\* send: const existingDeclinedRequest = await ... executeTakeFirst()
SendLookup(p) ==
    LET c == calls[p]
    IN  /\ c.op = "send" /\ c.pc = "lookup"
        /\ calls' = [calls EXCEPT ![p] =
                        [c EXCEPT !.pc = "act",
                                  !.found = SelectWhere(table, c.actor,
                                                        c.friend, "declined")]]
        /\ UNCHANGED <<table, last, nOps>>

SendActSwapped(p) ==
    LET c   == calls[p]
        ins == InsertInto(table, c.friend, c.actor, "requested")
    IN  /\ c.op = "send" /\ c.pc = "act"
        /\ IF c.found
           THEN /\ ~AutoBlocked(calls, p, <<c.actor, c.friend>>,
                       SelectWhere(table, c.actor, c.friend, "declined"))
                /\ table' = UpdateWhere(table, c.actor, c.friend,
                                        "declined", "requested")
                /\ calls' = [calls EXCEPT ![p] =
                                Returned([c EXCEPT !.branch = "update"], "Ok")]
           ELSE /\ ~AutoBlocked(calls, p, <<c.friend, c.actor>>, ins.ok)
                /\ table' = ins.table
                /\ calls' = [calls EXCEPT ![p] =
                                Returned([c EXCEPT !.branch = "insert"],
                                         IF ins.ok THEN "Ok" ELSE "Conflict")]
        /\ UNCHANGED <<last, nOps>>

\* send: the update of the declined row, or the insert
SendAct(p) ==
    LET c   == calls[p]
        ins == InsertInto(table, c.actor, c.friend, "requested")
    IN  /\ c.op = "send" /\ c.pc = "act"
        /\ IF c.found
           THEN /\ ~AutoBlocked(calls, p, <<c.actor, c.friend>>,
                       SelectWhere(table, c.actor, c.friend, "declined"))
                /\ table' = UpdateWhere(table, c.actor, c.friend,
                                        "declined", "requested")
                /\ calls' = [calls EXCEPT ![p] =
                                Returned([c EXCEPT !.branch = "update"], "Ok")]
           ELSE /\ ~AutoBlocked(calls, p, <<c.actor, c.friend>>, ins.ok)
                /\ table' = ins.table
                /\ calls' = [calls EXCEPT ![p] =
                                Returned([c EXCEPT !.branch = "insert"],
                                         IF ins.ok THEN "Ok" ELSE "Conflict")]
        /\ UNCHANGED <<last, nOps>>

\* accept, statement 1: update (session user, friend) requested -> accepted
AcceptUpdate(p) ==
    LET c == calls[p]
        u == TxUpdate(table, calls, p, c.actor, c.friend,
                      "requested", "accepted")
    IN  /\ c.op = "accept" /\ c.pc = "update"
        /\ ~u.blocked
        /\ calls' = [calls EXCEPT ![p] =
                        [c EXCEPT !.pc = "select", !.locks = u.locks,
                                  !.pending = u.pending]]
        /\ UNCHANGED <<table, last, nOps>>

\* accept, statement 2: look up the row (friend, session user)
AcceptSelect(p) ==
    LET c == calls[p]
    IN  /\ c.op = "accept" /\ c.pc = "select"
        /\ calls' = [calls EXCEPT ![p] =
                        [c EXCEPT !.pc = "reverse",
                                  !.found = SelectPair(View(table, c),
                                                       c.friend, c.actor)]]
        /\ UNCHANGED <<table, last, nOps>>

AcceptReverseSkipped(p) ==
    LET c == calls[p]
    IN  /\ c.op = "accept" /\ c.pc = "reverse"
        /\ calls' = [calls EXCEPT ![p] = [c EXCEPT !.pc = "commit"]]
        /\ UNCHANGED <<table, last, nOps>>

\* accept, statement 3: insert the looked-up row as accepted when it was not
\* found, else update it from requested to accepted
AcceptReverse(p) ==
    LET c == calls[p]
        i == TxInsert(table, calls, p, c.friend, c.actor, "accepted")
        u == TxUpdate(table, calls, p, c.friend, c.actor,
                      "requested", "accepted")
    IN  /\ c.op = "accept" /\ c.pc = "reverse"
        /\ IF ~c.found
           THEN /\ ~i.blocked
                /\ calls' = [calls EXCEPT ![p] =
                                IF i.ok
                                THEN [c EXCEPT !.pc = "commit",
                                               !.branch = "insert",
                                               !.locks = i.locks,
                                               !.pending = i.pending]
                                ELSE Returned([c EXCEPT !.branch = "insert"],
                                              "Conflict")]
           ELSE /\ ~u.blocked
                /\ calls' = [calls EXCEPT ![p] =
                                [c EXCEPT !.pc = "commit",
                                          !.branch = "update",
                                          !.locks = u.locks,
                                          !.pending = u.pending]]
        /\ UNCHANGED <<table, last, nOps>>

\* accept: the transaction callback returns and the transaction commits
AcceptCommit(p) ==
    LET c == calls[p]
    IN  /\ c.op = "accept" /\ c.pc = "commit"
        /\ table' = View(table, c)
        /\ calls' = [calls EXCEPT ![p] = Returned(c, "Ok")]
        /\ UNCHANGED <<last, nOps>>

DeclineUpdateAnyStatus(p) ==
    LET c == calls[p]
        t1 == UpdateWhere(table, c.friend, c.actor, "requested", "declined")
    IN  /\ c.op = "decline" /\ c.pc = "update"
        /\ ~AutoBlocked(calls, p, <<c.friend, c.actor>>,
               SelectPair(table, c.friend, c.actor))
        /\ table' = UpdateWhere(t1, c.friend, c.actor, "accepted", "declined")
        /\ calls' = [calls EXCEPT ![p] =
                        Returned([c EXCEPT !.branch = "update"], "Ok")]
        /\ UNCHANGED <<last, nOps>>

\* decline: update (friend, session user) requested -> declined
DeclineUpdate(p) ==
    LET c == calls[p]
    IN  /\ c.op = "decline" /\ c.pc = "update"
        /\ ~AutoBlocked(calls, p, <<c.friend, c.actor>>,
               SelectWhere(table, c.friend, c.actor, "requested"))
        /\ table' = UpdateWhere(table, c.friend, c.actor,
                                "requested", "declined")
        /\ calls' = [calls EXCEPT ![p] =
                        Returned([c EXCEPT !.branch = "update"], "Ok")]
        /\ UNCHANGED <<last, nOps>>

\* the pair whose lock p's next statement waits for, as a set
WaitsFor(cs, t, p) ==
    LET c == cs[p]
    IN  IF c.op = "accept" /\ c.pc = "update"
           /\ TxUpdate(t, cs, p, c.actor, c.friend,
                       "requested", "accepted").blocked
        THEN {<<c.actor, c.friend>>}
        ELSE IF c.op = "accept" /\ c.pc = "reverse"
                /\ IF c.found
                   THEN TxUpdate(t, cs, p, c.friend, c.actor,
                                 "requested", "accepted").blocked
                   ELSE TxInsert(t, cs, p, c.friend, c.actor,
                                 "accepted").blocked
        THEN {<<c.friend, c.actor>>}
        ELSE {}

DeadlockedNever(cs, t, p) == FALSE

\* p waits for a lock of q while q waits for a lock of p
Deadlocked(cs, t, p) ==
    \E q \in Procs \ {p} :
        /\ WaitsFor(cs, t, p) \cap cs[q].locks # {}
        /\ WaitsFor(cs, t, q) \cap cs[p].locks # {}

\* the storage engine's deadlock detection aborts one of the transactions:
\* its statement throws and the transaction rolls back
DeadlockAbort(p) ==
    /\ Deadlocked(calls, table, p)
    /\ calls' = [calls EXCEPT ![p] = Returned(calls[p], "StorageFailure")]
    /\ UNCHANGED <<table, last, nOps>>

Step(p) ==
    \/ Guard(p)
    \/ SendLookup(p)
    \/ SendAct(p)
    \/ AcceptUpdate(p)
    \/ AcceptSelect(p)
    \/ AcceptReverse(p)
    \/ AcceptCommit(p)
    \/ DeclineUpdate(p)
    \/ DeadlockAbort(p)

NextC ==
    \E p \in Procs :
        \/ \E op \in {"send", "accept", "decline"},
              sessionUserId \in Contenders :
                 \E friendUserId \in Contenders \ {sessionUserId} :
                    Invoke(p, op, sessionUserId, friendUserId)
        \/ Step(p)

SpecC == Init /\ [][NextC]_vars

\* every request in flight keeps being served
SpecFair == SpecC /\ \A p \in Procs : WF_vars(Step(p))

\* ------------------------------------------------------ reading the table
AllRows == {Row(u, f, s) : u \in Ids, f \in Ids, s \in Statuses}

\* number of rows of the ordered pair (userId, friendUserId)
PairCount(t, userId, friendUserId) ==
    CopiesIn(Row(userId, friendUserId, "requested"), t)
    + CopiesIn(Row(userId, friendUserId, "accepted"), t)
    + CopiesIn(Row(userId, friendUserId, "declined"), t)

\* the pair has exactly one row and its status is status
OneRow(t, userId, friendUserId, status) ==
    /\ CopiesIn(Row(userId, friendUserId, status), t) = 1
    /\ PairCount(t, userId, friendUserId) = 1

\* the table holds exactly the rows of S, once each
TableIs(t, S) ==
    /\ BagToSet(t) = S
    /\ \A r \in S : CopiesIn(r, t) = 1

\* every row but those of the pair (userId, friendUserId) is as it was
OthersUnchanged(t, tNew, userId, friendUserId) ==
    \A r \in AllRows :
        (r.userId # userId \/ r.friendUserId # friendUserId)
            => CopiesIn(r, tNew) = CopiesIn(r, t)

\* the step is the call op(actor, friend), as recorded in last
IsCall(l, op, actor, friend) ==
    l.op = op /\ l.actor = actor /\ l.friend = friend

\* ------------------------------------------------------------------ claims

\* C1: from a table holding only (A,B,requested), a successful accept by B
\* for requester A ends with (A,B,accepted) and (B,A,accepted) both present.
C1_AcceptCreatesSymmetry ==
    [][\A a, b \in Users :
          ( /\ a # b
            /\ TableIs(table, {Row(a, b, "requested")})
            /\ IsCall(last', "accept", b, a)
            /\ last'.result = "Ok" )
          => ( /\ BagIn(Row(a, b, "accepted"), table')
               /\ BagIn(Row(b, a, "accepted"), table') )]_vars

\* C2: in every reachable state the table holds at most one row per ordered
\* pair (userId, friendUserId).
C2_UniquePerPair ==
    \A u, f \in Ids : PairCount(table, u, f) <= 1

\* a send issued while the pair's row exists as requested or accepted
C2_Witness ==
    /\ last.op = "send"
    /\ last.result = "Conflict"
    /\ \/ OneRow(table, last.actor, last.friend, "requested")
       \/ OneRow(table, last.actor, last.friend, "accepted")

\* C3: B's decline of A's request leaves the row (A,B,declined); the send(A,B)
\* that follows returns Ok and rewrites that row to (A,B,requested), the one
\* row of the pair, every other row as it was.
C3_DeclineThenResend ==
    [][\A a, b \in Users :
          /\ ( /\ BagIn(Row(a, b, "requested"), table)
               /\ IsCall(last', "decline", b, a) )
             => OneRow(table', a, b, "declined")
          /\ ( /\ IsCall(last, "decline", b, a)
               /\ last.result = "Ok"
               /\ IsCall(last', "send", a, b) )
             => ( /\ last'.result = "Ok"
                  /\ OneRow(table', a, b, "requested")
                  /\ OthersUnchanged(table, table', a, b) )]_vars

\* send, decline, send in a row: the declined row has been revived
C3_Witness ==
    /\ nOps = 3
    /\ last.op = "send"
    /\ last.result = "Ok"
    /\ last.branch = "update"
    /\ OneRow(table, last.actor, last.friend, "requested")

\* C4: a send(A,B) that found no (A,B) row, directly followed by a second
\* send(A,B), leaves exactly one row (A,B,requested).
C4_IdempotentResend ==
    [][\A a, b \in Users :
          ( /\ IsCall(last, "send", a, b)
            /\ last.result = "Ok"
            /\ last.branch = "insert"
            /\ IsCall(last', "send", a, b) )
          => OneRow(table', a, b, "requested")]_vars

\* the second of two sends of the same request has returned
C4_Witness ==
    /\ nOps = 2
    /\ last.op = "send"
    /\ last.branch = "insert"
    /\ last.result = "Conflict"
    /\ OneRow(table, last.actor, last.friend, "requested")

\* C5: from exactly the rows (A,B,requested) and (B,A,requested), a
\* successful accept by B for requester A ends with exactly the two rows
\* (A,B,accepted) and (B,A,accepted).
C5_AcceptMutualRequests ==
    [][\A a, b \in Users :
          ( /\ a # b
            /\ TableIs(table, {Row(a, b, "requested"), Row(b, a, "requested")})
            /\ IsCall(last', "accept", b, a)
            /\ last'.result = "Ok" )
          => TableIs(table', {Row(a, b, "accepted"), Row(b, a, "accepted")})]_vars

\* two crossing sends, then an accept that returned Ok
C5_Witness ==
    /\ nOps = 3
    /\ last.op = "accept"
    /\ last.result = "Ok"
    /\ last.actor # last.friend
    /\ TableIs(table, {Row(last.actor, last.friend, "accepted"),
                       Row(last.friend, last.actor, "accepted")})

\* C6: when accept(actor, requester) returns Ok and a row (actor, requester)
\* existed beforehand, that row is accepted afterwards, whatever its status was.
C6_ReverseForcedAccepted ==
    [][\A actor, requester \in Users :
          ( /\ SelectPair(table, actor, requester)
            /\ IsCall(last', "accept", actor, requester)
            /\ last'.result = "Ok" )
          => OneRow(table', actor, requester, "accepted")]_vars

\* C7: accept or decline called with no row (requester, actor, requested)
\* returns the guard's error and leaves the table as it was.
C7_NoPendingRejected ==
    [][\A actor \in Users, requester \in Ids :
          ( /\ ~BagIn(Row(requester, actor, "requested"), table)
            /\ \/ IsCall(last', "accept", actor, requester)
               \/ IsCall(last', "decline", actor, requester) )
          => ( /\ last'.result = BAD_REQUEST
               /\ table' = table )]_vars

\* an answer to a request that is already accepted or declined was rejected
C7_Witness ==
    /\ last.op \in {"accept", "decline"}
    /\ last.result = BAD_REQUEST
    /\ \/ BagIn(Row(last.friend, last.actor, "accepted"), table)
       \/ BagIn(Row(last.friend, last.actor, "declined"), table)

\* C8: send to an id that is no user returns the guard's error and leaves
\* the table as it was.
C8_InvalidTargetRejected ==
    [][\A actor \in Users, target \in Ids \ Users :
          IsCall(last', "send", actor, target)
          => ( /\ last'.result = BAD_REQUEST
               /\ table' = table )]_vars

\* a send to a missing user was rejected
C8_Witness ==
    /\ last.op = "send"
    /\ last.friend \notin Users
    /\ last.result = BAD_REQUEST
    /\ \A u \in Ids : PairCount(table, u, last.friend) = 0

\* C9: when a statement of the accept transaction throws after the first
\* update has run, accept returns an error and the table is as it was before
\* accept started.
C9_AcceptRollsBack ==
    [][\A actor, requester \in Users :
          ( /\ IsCall(last', "accept", actor, requester)
            /\ last'.failAt \in {"select", "reverse"}
            /\ last'.result # BAD_REQUEST )
          => ( /\ last'.result # "Ok"
               /\ table' = table )]_vars

\* the reverse-row statement threw after the first update had rewritten a row
C9_Witness ==
    /\ last.op = "accept"
    /\ last.failAt = "reverse"
    /\ last.result = "StorageFailure"
    /\ BagIn(Row(last.actor, last.friend, "requested"), table)
    /\ BagIn(Row(last.friend, last.actor, "requested"), table)

\* C10: a successful decline(actor, requester) rewrites the one row
\* (requester, actor) from requested to declined and changes, inserts and
\* deletes nothing else.
C10_DeclineFrame ==
    [][\A actor, requester \in Users :
          ( /\ IsCall(last', "decline", actor, requester)
            /\ last'.result = "Ok" )
          => ( /\ OneRow(table, requester, actor, "requested")
               /\ OneRow(table', requester, actor, "declined")
               /\ OthersUnchanged(table, table', requester, actor) )]_vars

\* a decline succeeded while the decliner's own row to the requester exists
C10_Witness ==
    /\ last.op = "decline"
    /\ last.result = "Ok"
    /\ last.actor # last.friend
    /\ OneRow(table, last.friend, last.actor, "declined")
    /\ PairCount(table, last.actor, last.friend) = 1

\* C11: in every state between calls, a row (X,Y) with status accepted has a
\* row (Y,X) that is accepted too.
C11_NoPartialAcceptance ==
    \A x, y \in Ids :
        BagIn(Row(x, y, "accepted"), table)
            => BagIn(Row(y, x, "accepted"), table)

\* rows of the pair gained (positive) or lost (negative) per status
Delta(t, tNew, userId, friendUserId, status) ==
    CopiesIn(Row(userId, friendUserId, status), tNew)
    - CopiesIn(Row(userId, friendUserId, status), t)

\* the pair's rows are as they were, or one row was inserted as requested,
\* or one row changed its status
AtMostOneRowTouched(t, tNew, userId, friendUserId) ==
    LET d(s) == Delta(t, tNew, userId, friendUserId, s)
    IN  \/ \A s \in Statuses : d(s) = 0
        \/ /\ d("requested") = 1
           /\ d("accepted") = 0
           /\ d("declined") = 0
        \/ \E s1, s2 \in Statuses :
              /\ s1 # s2
              /\ d(s1) = -1
              /\ d(s2) = 1
              /\ \A s \in Statuses \ {s1, s2} : d(s) = 0

\* C17: one send(actor, target) inserts or modifies at most one row, a row
\* of the pair (actor, target); every other row is as it was.
C17_SendFrame ==
    [][\A actor \in Users, target \in Ids :
          IsCall(last', "send", actor, target)
          => ( /\ OthersUnchanged(table, table', actor, target)
               /\ AtMostOneRowTouched(table, table', actor, target) )]_vars

\* a send wrote its row while the reverse row exists
C17_Witness ==
    /\ last.op = "send"
    /\ last.result = "Ok"
    /\ last.actor # last.friend
    /\ OneRow(table, last.actor, last.friend, "requested")
    /\ PairCount(table, last.friend, last.actor) = 1

InFlightOrDone(c, op) == c.op = op /\ c.pc # "idle"

CrossRequested(t, a, b) ==
    TableIs(t, {Row(a, b, "requested"), Row(b, a, "requested")})

\* C12: when accept by A and accept by B are both invoked on the table that
\* holds exactly (A,B,requested) and (B,A,requested), then once both have
\* returned the table holds exactly (A,B,accepted) and (B,A,accepted).
C12_CrossAcceptsConverge ==
    \A p, q \in Procs :
        LET c == calls[p]
            d == calls[q]
        IN  ( /\ p # q
              /\ c.op = "accept" /\ d.op = "accept"
              /\ c.actor = d.friend /\ c.friend = d.actor
              /\ CrossRequested(c.pre, c.actor, c.friend)
              /\ CrossRequested(d.pre, c.actor, c.friend)
              /\ c.pc = "done" /\ d.pc = "done" )
            => TableIs(table, {Row(c.actor, c.friend, "accepted"),
                               Row(c.friend, c.actor, "accepted")})

\* the two accepts locked their rows in opposite orders, one was aborted by
\* the storage engine and the other committed
C12_Witness ==
    \E p, q \in Procs :
        /\ p # q
        /\ calls[p].op = "accept" /\ calls[q].op = "accept"
        /\ calls[p].actor = calls[q].friend
        /\ CrossRequested(calls[p].pre, calls[p].actor, calls[p].friend)
        /\ CrossRequested(calls[q].pre, calls[p].actor, calls[p].friend)
        /\ calls[p].pc = "done" /\ calls[p].result = "Ok"
        /\ calls[q].pc = "done" /\ calls[q].result = "StorageFailure"
        /\ TableIs(table, {Row(calls[p].actor, calls[p].friend, "accepted"),
                           Row(calls[p].friend, calls[p].actor, "accepted")})

\* C13: when an accept and a decline of the same pending request (requester
\* A, actor B) were both invoked while it was pending and both have
\* returned, an accept that returned Ok has left (A,B) and (B,A) accepted.
C13_AcceptOkMeansMutual ==
    \A p, q \in Procs :
        LET c == calls[p]
            d == calls[q]
        IN  ( /\ p # q
              /\ c.op = "accept" /\ d.op = "decline"
              /\ c.actor = d.actor /\ c.friend = d.friend
              /\ BagIn(Row(c.friend, c.actor, "requested"), c.pre)
              /\ BagIn(Row(c.friend, c.actor, "requested"), d.pre)
              /\ c.pc = "done" /\ d.pc = "done"
              /\ c.result = "Ok" )
            => ( /\ OneRow(table, c.friend, c.actor, "accepted")
                 /\ OneRow(table, c.actor, c.friend, "accepted") )

\* C14: two send(A,B) invoked while the pair has no row never put two (A,B)
\* rows in the table, and once both have returned the pair has exactly the
\* row (A,B,requested), the losing call having returned a conflict at worst.
C14_ConcurrentSendsOneRow ==
    \A p, q \in Procs :
        LET c == calls[p]
            d == calls[q]
        IN  ( /\ p # q
              /\ InFlightOrDone(c, "send") /\ InFlightOrDone(d, "send")
              /\ c.actor = d.actor /\ c.friend = d.friend
              /\ PairCount(c.pre, c.actor, c.friend) = 0
              /\ PairCount(d.pre, c.actor, c.friend) = 0 )
            => ( /\ PairCount(table, c.actor, c.friend) <= 1
                 /\ (c.pc = "done" /\ d.pc = "done")
                      => ( /\ OneRow(table, c.actor, c.friend, "requested")
                           /\ {c.result, d.result} \subseteq {"Ok", "Conflict"}
                           /\ "Ok" \in {c.result, d.result} ) )

\* both sends looked the row up before either inserted; one insert lost
C14_Witness ==
    \E p, q \in Procs :
        /\ p # q
        /\ calls[p].op = "send" /\ calls[q].op = "send"
        /\ calls[p].actor = calls[q].actor /\ calls[p].friend = calls[q].friend
        /\ PairCount(calls[p].pre, calls[p].actor, calls[p].friend) = 0
        /\ PairCount(calls[q].pre, calls[p].actor, calls[p].friend) = 0
        /\ calls[p].pc = "done" /\ calls[p].result = "Ok"
        /\ calls[q].pc = "done" /\ calls[q].result = "Conflict"
        /\ calls[q].branch = "insert"
        /\ OneRow(table, calls[p].actor, calls[p].friend, "requested")

\* C15: every invoked call eventually returns.
C15_EveryCallReturns ==
    \A p \in Procs :
        (calls[p].pc \notin {"idle", "done"}) ~> (calls[p].pc = "done")

\* two accepts waited for each other's row and one was made to return
C15_Witness ==
    \E p, q \in Procs :
        /\ p # q
        /\ calls[p].op = "accept" /\ calls[p].pc = "done"
        /\ calls[p].result = "StorageFailure"
        /\ calls[q].op = "accept" /\ calls[q].pc = "done"
        /\ calls[q].result = "Ok"

\* C16: no step deletes a row: a pair that has a row keeps exactly its rows
\* in number, so a declined row is revived by rewriting it, not by a second
\* row.
C16_RowsNeverDeleted ==
    [][\A u, f \in Ids :
          PairCount(table, u, f) >= 1
              => PairCount(table', u, f) = PairCount(table, u, f)]_vars

\* a send has revived a declined row by its update
C16_Witness ==
    \E p \in Procs :
        /\ calls[p].op = "send" /\ calls[p].pc = "done"
        /\ calls[p].result = "Ok" /\ calls[p].branch = "update"
        /\ BagIn(Row(calls[p].actor, calls[p].friend, "declined"), calls[p].pre)
        /\ OneRow(table, calls[p].actor, calls[p].friend, "requested")

\* C18: a row that is accepted stays accepted across every step.
C18_AcceptedAbsorbing ==
    [][\A u, f \in Ids :
          OneRow(table, u, f, "accepted")
              => OneRow(table', u, f, "accepted")]_vars

\* a decline whose guard saw the request pending ran its update after the
\* concurrent accept had committed, and the row is still accepted
C18_Witness ==
    \E p, q \in Procs :
        /\ p # q
        /\ calls[p].op = "decline" /\ calls[q].op = "accept"
        /\ calls[p].actor = calls[q].actor /\ calls[p].friend = calls[q].friend
        /\ BagIn(Row(calls[p].friend, calls[p].actor, "requested"), calls[p].pre)
        /\ BagIn(Row(calls[p].friend, calls[p].actor, "requested"), calls[q].pre)
        /\ calls[p].pc = "done" /\ calls[p].result = "Ok"
        /\ calls[q].pc = "done" /\ calls[q].result = "Ok"
        /\ OneRow(table, calls[p].friend, calls[p].actor, "accepted")

====
